---------------------------- MODULE Spec2Model ----------------------------
(***************************************************************************)
(* A model of index.js: an Express application with one application-level  *)
(* middleware (express.json()), two routes (GET / and POST /api/data) and  *)
(* one app.listen call.                                                    *)
(*                                                                         *)
(* index.js is nineteen lines; everything it does is done by calling the   *)
(* Express API.  Each definition below models the call of index.js named   *)
(* in its comment, with the behaviour Express gives that call by default   *)
(* (no option is passed anywhere in index.js).  The README installs        *)
(* Express with "npm install express" and pins no version, so the major    *)
(* version (4 or 5) is a choice made when the program is built; the model  *)
(* keeps it as the variable expressMajor and covers both.                  *)
(***************************************************************************)
EXTENDS Integers, Sequences, FiniteSets, TLC

(***************************************************************************)
(* Bounds of the model.                                                    *)
(***************************************************************************)
\* Requests the server has accepted and not yet answered, at most.
MaxInFlight == 2
\* Elements of a JSON array, and members of a JSON object, at most.
MaxItems == 2

(***************************************************************************)
(* Program constants.                                                      *)
(***************************************************************************)
\* index.js line 4: const port = 3000
port == 3000

\* README, "npm install express": the major versions that command installs.
ExpressMajors == {4, 5}

\* index.js line 9: the argument of res.send in the GET / handler.
Greeting == "Hello from Node.js backend!"

\* index.js line 14: the message property of the object sent by POST /api/data.
DataReceived == "Data received!"

(***************************************************************************)
(* JSON texts, as they travel in a request or response body.  A text is a  *)
(* record [t, v]: t is the kind of value and v its spelling.  Numbers keep  *)
(* their literal: "42", and "1e400", which is valid JSON and larger than   *)
(* any IEEE double.                                                        *)
(***************************************************************************)
NullT == [t |-> "null", v |-> "null"]
TrueT == [t |-> "bool", v |-> "true"]
StrT(s) == [t |-> "str", v |-> s]
NumT(lit) == [t |-> "num", v |-> lit]
ArrT(items) == [t |-> "arr", v |-> items]
ObjT(members) == [t |-> "obj", v |-> members]

\* The README's clients send { sample: "Hello Backend!" }.
SampleKey == "sample"
HelloBackend == StrT("Hello Backend!")
FortyTwo == NumT("42")
Huge == NumT("1e400")

ScalarTexts == {NullT, TrueT, HelloBackend, FortyTwo, Huge}
ElemTexts == {HelloBackend, Huge}

SeqsUpTo(S, n) == UNION {[1..k -> S] : k \in 0..n}

ArrayTexts == {ArrT(s) : s \in SeqsUpTo(ElemTexts, MaxItems)}
ObjectTexts ==
    {ObjT(s) : s \in SeqsUpTo({<<SampleKey, e>> : e \in ElemTexts}, MaxItems)}
JsonTexts == ScalarTexts \cup ArrayTexts \cup ObjectTexts

(***************************************************************************)
(* JavaScript values, as req.body holds them.  Same record shape; a number *)
(* is an IEEE double, spelled as JavaScript prints it.  Undefined is what  *)
(* a property that was never assigned reads as.                            *)
(***************************************************************************)
Undefined == [t |-> "undefined", v |-> "undefined"]
EmptyObject == [t |-> "obj", v |-> <<>>]

\* JSON.parse on a number literal: the nearest double; 1e400 overflows.
ParseNumber(lit) == IF lit = "1e400" THEN "Infinity" ELSE lit

\* JSON.parse, called by the express.json() middleware (index.js line 6).  In an
\* object a later member with a key already seen replaces the value of the earlier
\* one and keeps the earlier one's place.
RECURSIVE JsonParse(_)
RECURSIVE ParseMembers(_)
ParseMembers(ms) ==
    IF ms = <<>> THEN <<>>
    ELSE LET init == ParseMembers(SubSeq(ms, 1, Len(ms) - 1))
             last == <<ms[Len(ms)][1], JsonParse(ms[Len(ms)][2])>>
             at   == {i \in 1..Len(init) : init[i][1] = last[1]}
         IN  IF at = {} THEN Append(init, last)
             ELSE [i \in 1..Len(init) |-> IF i \in at THEN last ELSE init[i]]

JsonParse(x) ==
    CASE x.t = "arr" -> [t |-> "arr", v |-> [i \in 1..Len(x.v) |-> JsonParse(x.v[i])]]
      [] x.t = "obj" -> [t |-> "obj", v |-> ParseMembers(x.v)]
      [] x.t = "num" -> [t |-> "num", v |-> ParseNumber(x.v)]
      [] OTHER -> x

IsDefinedMember(m) == m[2].t # "undefined"

\* JSON.stringify, called by res.send on an object (index.js line 14).  A double
\* that is not finite is written null; an object member whose value is undefined is
\* left out; an array element that is undefined is written null.
RECURSIVE JsonStringify(_)
JsonStringify(x) ==
    CASE x.t = "arr" -> ArrT([i \in 1..Len(x.v) |-> JsonStringify(x.v[i])])
      [] x.t = "obj" ->
            LET kept == SelectSeq(x.v, IsDefinedMember)
            IN  ObjT([i \in 1..Len(kept) |-> <<kept[i][1], JsonStringify(kept[i][2])>>])
      [] x.t = "num" /\ x.v = "Infinity" -> NullT
      [] x.t = "undefined" -> NullT
      [] OTHER -> x

\* Structural (deep) equality of two JSON texts: arrays element by element, objects
\* member by member whatever their order.
RECURSIVE DeepEqual(_, _)
DeepEqual(a, b) ==
    /\ a.t = b.t
    /\ CASE a.t = "arr" ->
              /\ Len(a.v) = Len(b.v)
              /\ \A i \in 1..Len(a.v) : DeepEqual(a.v[i], b.v[i])
         [] a.t = "obj" ->
              /\ Len(a.v) = Len(b.v)
              /\ \A i \in 1..Len(a.v) : \E j \in 1..Len(b.v) :
                    a.v[i][1] = b.v[j][1] /\ DeepEqual(a.v[i][2], b.v[j][2])
              /\ \A j \in 1..Len(b.v) : \E i \in 1..Len(a.v) :
                    a.v[i][1] = b.v[j][1] /\ DeepEqual(a.v[i][2], b.v[j][2])
         [] OTHER -> a.v = b.v

(***************************************************************************)
(* Requests.                                                               *)
(***************************************************************************)
\* A request path: the route it spells, and how it spells it.  "exact" is the route
\* as index.js writes it, "slash" has a trailing slash added ("/api/data/"),
\* "upper" is in upper case ("/API/DATA").
Path(name, spelling) == [name |-> name, spelling |-> spelling]
RootPath == Path("/", "exact")
ApiData == Path("/api/data", "exact")
Paths ==
    {RootPath, ApiData, Path("/api/data", "slash"), Path("/api/data", "upper"),
     Path("/nonexistent", "exact")}

Methods == {"GET", "POST", "HEAD", "OPTIONS", "PUT"}

\* A request body on the wire: none at all (no Content-Length), an empty one
\* (Content-Length: 0), bytes that are not JSON, or a JSON text.
NoBody == [kind |-> "none", text |-> NullT]
EmptyBody == [kind |-> "empty", text |-> NullT]
Garbage == [kind |-> "garbage", text |-> NullT]
JsonBody(x) == [kind |-> "json", text |-> x]
SampleBody == JsonBody(ObjT(<< <<SampleKey, HelloBackend>> >>))

\* The conditional and caching request headers: If-None-Match ("absent", "match":
\* the entity tag of the response the handler produces, "star": *, "other": another
\* tag), If-Modified-Since (present or not) and Cache-Control: no-cache.
NoCond == [inm |-> "absent", ims |-> FALSE, noCache |-> FALSE]
Conds ==
    [inm : {"absent", "match", "star", "other"}, ims : BOOLEAN, noCache : BOOLEAN]

Req(m, p, q, ct, b, c) ==
    [method |-> m, path |-> p, query |-> q, ctype |-> ct, body |-> b, cond |-> c]

\* Every (method, path) pair, with no body.
RouteRequests == {Req(m, p, "", "none", NoBody, NoCond) : m \in Methods, p \in Paths}

\* GET / under every combination of the conditional headers, with a query string,
\* and with a body.
GetRequests ==
    {Req(m, RootPath, "", "none", NoBody, c) : m \in {"GET", "HEAD"}, c \in Conds}
    \cup {Req("GET", RootPath, "?x=1", "none", NoBody, c) :
            c \in {NoCond, [NoCond EXCEPT !.inm = "match"], [NoCond EXCEPT !.ims = TRUE]}}
    \cup {Req("GET", RootPath, "", "application/json", b, NoCond) :
            b \in {Garbage, SampleBody}}

\* POST /api/data with every body under Content-Type: application/json, and with
\* some bodies under another content type or none.
PostRequests ==
    {Req("POST", ApiData, "", "application/json", b, NoCond) :
        b \in {EmptyBody, Garbage} \cup {JsonBody(x) : x \in JsonTexts}}
    \cup {Req("POST", ApiData, "", ct, b, NoCond) :
            ct \in {"text/plain", "none"}, b \in {Garbage, SampleBody}}
    \cup {Req("POST", ApiData, "?x=1", "application/json", SampleBody,
              [NoCond EXCEPT !.inm = "star"])}

Requests == RouteRequests \cup GetRequests \cup PostRequests

(***************************************************************************)
(* Responses: a status and a body.  A body is text (res.send of a string), *)
(* a JSON text (res.send of an object), the Allow list of the automatic    *)
(* OPTIONS answer, Express's default error page, or nothing.               *)
(***************************************************************************)
TextBody(str) == [kind |-> "text", v |-> StrT(str)]
JsonText(x) == [kind |-> "json", v |-> x]
AllowBody(str) == [kind |-> "allow", v |-> StrT(str)]
ErrorPage == [kind |-> "error", v |-> NullT]
NoContent == [kind |-> "empty", v |-> NullT]

Response(status, body) == [status |-> status, body |-> body]
NoResponse == Response(0, NoContent)

(***************************************************************************)
(* State.                                                                  *)
(***************************************************************************)
VARIABLES
    expressMajor,   \* the major version of Express the build installed
    pc,             \* where the process is: "start", "bound", "bindError",
                    \* "listening", "crashed" or "exited"
    listenPort,     \* the port the server is bound to (0: none)
    logLines,       \* how many "Server running at ..." lines console.log wrote
    slots,          \* the requests in flight, one per connection slot
    probe           \* history: the first answer delivered to a probed request

vars == <<expressMajor, pc, listenPort, logLines, slots, probe>>

Slots == 1..MaxInFlight

\* A request in flight: req (what the client sent), body (req.body), parsed (the
\* JSON middleware is done with this request), at (the layer of the stack the
\* request waits in while its body is read), handler (the route handler that ran),
\* handlerSawParsed (the value of parsed when it ran), sends (how many times the
\* handler called res.send) and resp (the response).
Slot(phase, req, at, body, parsed, handler, saw, sends, resp) ==
    [phase |-> phase, req |-> req, at |-> at, body |-> body, parsed |-> parsed,
     handler |-> handler, handlerSawParsed |-> saw, sends |-> sends, resp |-> resp]

NoRequest == Req("NONE", RootPath, "", "none", NoBody, NoCond)
Idle == Slot("idle", NoRequest, 0, Undefined, FALSE, "none", FALSE, 0, NoResponse)

(***************************************************************************)
(* index.js lines 6 to 15: the application's stack, in registration order. *)
(***************************************************************************)
JsonLayer == [kind |-> "use", name |-> "json", method |-> "*", path |-> "*"]
GetRootLayer == [kind |-> "route", name |-> "get", method |-> "GET", path |-> "/"]
PostDataLayer ==
    [kind |-> "route", name |-> "post", method |-> "POST", path |-> "/api/data"]

\* Mutant: app.use(express.json()) is called after the routes are registered.
StackRoutesFirst == <<GetRootLayer, PostDataLayer, JsonLayer>>

Stack == <<JsonLayer, GetRootLayer, PostDataLayer>>

(***************************************************************************)
(* express.json(), index.js line 6, with its default options.              *)
(***************************************************************************)
\* req.body once the middleware is entered and before it parses anything:
\* Express 4's body parser assigns {} on entry; Express 5 leaves the property
\* undefined.
InitialBody(major) == IF major = 4 THEN EmptyObject ELSE Undefined

\* type-is hasBody: the request announces a body (Content-Length or
\* Transfer-Encoding).
HasBody(r) == r.body.kind # "none"

\* The default type option: only application/json is parsed.
ShouldParse(r) == r.ctype = "application/json"

\* The default strict option: the first character must open an object or an array.
StrictAccepts(x) == x.t \in {"arr", "obj"}

\* Mutant: a body that does not parse is taken for {} instead of being refused.
ParseBodyLenient(b) ==
    IF b.kind = "json" /\ StrictAccepts(b.text)
    THEN <<TRUE, JsonParse(b.text)>>
    ELSE <<TRUE, EmptyObject>>

\* The parse step, once the whole body is read: << ok, value >>.  An empty body is
\* taken for {}.
ParseBody(b) ==
    CASE b.kind = "empty" -> <<TRUE, EmptyObject>>
      [] b.kind = "json" /\ StrictAccepts(b.text) -> <<TRUE, JsonParse(b.text)>>
      [] OTHER -> <<FALSE, Undefined>>

(***************************************************************************)
(* res.send, index.js lines 9 and 14.                                      *)
(***************************************************************************)
\* The freshness test of a conditional request against a response that carries an
\* entity tag and no Last-Modified (res.send sets the first, never the second).
\* Express 4 requires every condition present to hold; Express 5 lets
\* If-None-Match take precedence over If-Modified-Since.
FreshHeaders(major, c) ==
    /\ c.inm # "absent" \/ c.ims
    /\ ~c.noCache
    /\ IF major = 4
       THEN c.inm \in {"match", "star"} /\ ~c.ims
       ELSE c.inm \in {"match", "star"}

\* Mutant: the freshness test is applied whatever the method.
FreshAnyMethod(major, r) == FreshHeaders(major, r.cond)

\* req.fresh: only GET and HEAD requests can be fresh.
Fresh(major, r) == r.method \in {"GET", "HEAD"} /\ FreshHeaders(major, r.cond)

\* The body res.send writes for its argument: a string as it is, an object as JSON.
Payload(arg) == IF arg.t = "str" THEN TextBody(arg.v) ELSE JsonText(JsonStringify(arg))

\* res.send(arg): status 200 and the payload; 304 and no body when the request is
\* fresh; no body in answer to HEAD.
Send(major, r, arg) ==
    IF Fresh(major, r) THEN Response(304, NoContent)
    ELSE IF r.method = "HEAD" THEN Response(200, NoContent)
    ELSE Response(200, Payload(arg))

\* Express's final handler: the default error page, with no body in answer to HEAD.
Final(r, status) == Response(status, IF r.method = "HEAD" THEN NoContent ELSE ErrorPage)

(***************************************************************************)
(* The handlers, index.js lines 8 to 15: the res.send calls each makes, in  *)
(* order, given the request object.                                        *)
(***************************************************************************)
\* index.js lines 8-10
GetRootHandler(s) == << StrT(Greeting) >>

\* Mutant: the handler reads a property the parser never assigns (req.data).
RequestDataWrongProperty(s) == Undefined

\* Mutant: the handler reads a variable shared by all requests, which holds the
\* body of the request on the first connection.
RequestDataShared(s) == slots[1].body

\* index.js line 13: const data = req.body
RequestData(s) == s.body

\* Mutant: the handler answers twice.
PostDataHandlerSendsTwice(s) ==
    LET envelope == [t |-> "obj",
                     v |-> << <<"message", StrT(DataReceived)>>, <<"data", s.body>> >>]
    IN  << envelope, envelope >>

\* index.js lines 12-15
PostDataHandler(s) ==
    << [t |-> "obj",
        v |-> << <<"message", StrT(DataReceived)>>, <<"data", RequestData(s)>> >>] >>

Handle(name, s) == IF name = "get" THEN GetRootHandler(s) ELSE PostDataHandler(s)

(***************************************************************************)
(* Routing, app.get and app.post (index.js lines 8 and 12), with the       *)
(* default settings: case-insensitive, trailing slash optional, the query  *)
(* string not part of the path.                                            *)
(***************************************************************************)
\* Mutant: the route is compared with the whole URL, query string included.
PathMatchesWholeUrl(layer, r) == layer.path = r.path.name /\ r.query = ""

PathMatches(layer, r) == layer.path = r.path.name

\* Mutant: the routes are registered for every method (app.all).
HandlesAnyMethod(layer, r) == TRUE

\* A route registered for GET also handles HEAD.
HandlesMethod(layer, r) ==
    \/ layer.method = r.method
    \/ layer.method = "GET" /\ r.method = "HEAD"

\* The methods the automatic answer to OPTIONS lists for the request's path.
AllowedMethods(r) ==
    {Stack[k].method : k \in {j \in 1..Len(Stack) :
                                Stack[j].kind = "route" /\ PathMatches(Stack[j], r)}}

\* The list as written in the Allow header and the body: Express 4 joins the
\* methods with ",", Express 5 with ", ".
AllowList(major, ms) ==
    IF ms = {"GET"} THEN (IF major = 4 THEN "GET,HEAD" ELSE "GET, HEAD")
    ELSE IF ms = {"POST"} THEN "POST"
    ELSE (IF major = 4 THEN "GET,HEAD,POST" ELSE "GET, HEAD, POST")

\* The end of the stack: the automatic answer to OPTIONS, or 404.
EndOfStack(major, s) ==
    IF s.req.method = "OPTIONS" /\ AllowedMethods(s.req) # {}
    THEN [s EXCEPT !.phase = "responded",
                   !.resp = Response(200,
                                AllowBody(AllowList(major, AllowedMethods(s.req))))]
    ELSE [s EXCEPT !.phase = "responded", !.resp = Final(s.req, 404)]

\* A handler runs: it sees the request object, and res.send answers.
Dispatch(major, name, s) ==
    LET calls == Handle(name, s)
    IN  [s EXCEPT !.phase = "responded",
                  !.handler = name,
                  !.handlerSawParsed = s.parsed,
                  !.sends = Len(calls),
                  !.resp = IF calls = <<>> THEN NoResponse
                           ELSE Send(major, s.req, calls[1])]

\* The request goes down the stack from layer k until a layer answers it or
\* keeps it (the JSON middleware, while the body is read).
RECURSIVE Run(_, _, _)
Run(major, s, k) ==
    IF k > Len(Stack) THEN EndOfStack(major, s)
    ELSE IF Stack[k].kind = "use"
    THEN LET entered == IF s.body.t = "undefined"
                        THEN [s EXCEPT !.body = InitialBody(major)] ELSE s
         IN  IF HasBody(s.req) /\ ShouldParse(s.req) /\ ~s.parsed
             THEN [entered EXCEPT !.phase = "reading", !.at = k]
             ELSE Run(major, [entered EXCEPT !.parsed = TRUE], k + 1)
    ELSE IF PathMatches(Stack[k], s.req) /\ HandlesMethod(Stack[k], s.req)
    THEN Dispatch(major, Stack[k].name, s)
    ELSE Run(major, s, k + 1)

\* A request arrives: its request object is made and enters the stack.
Accept(major, r) ==
    Run(major, Slot("running", r, 0, Undefined, FALSE, "none", FALSE, 0, NoResponse), 1)

\* Mutant: the parser reads from a buffer shared by all requests, which holds the
\* body of the request on the first connection.
BodyReadShared(major, s) ==
    LET parsed == ParseBody(slots[1].req.body)
    IN  IF parsed[1]
        THEN Run(major, [s EXCEPT !.body = parsed[2], !.parsed = TRUE], s.at + 1)
        ELSE [s EXCEPT !.phase = "responded", !.parsed = TRUE,
                       !.resp = Final(s.req, 400)]

\* The body has been read: it is parsed; an error skips the rest of the stack and
\* is answered 400, otherwise req.body is assigned and the request goes on.
BodyRead(major, s) ==
    LET parsed == ParseBody(s.req.body)
    IN  IF parsed[1]
        THEN Run(major, [s EXCEPT !.body = parsed[2], !.parsed = TRUE], s.at + 1)
        ELSE [s EXCEPT !.phase = "responded", !.parsed = TRUE,
                       !.resp = Final(s.req, 400)]

\* The answer a request gets when nothing else is in flight.
Serve(major, r) ==
    LET s == Accept(major, r)
    IN  IF s.phase = "reading" THEN BodyRead(major, s).resp ELSE s.resp

(***************************************************************************)
(* The process.                                                            *)
(***************************************************************************)
\* The requests whose first answer the history variable records.
ProbeRequests ==
    {Req("POST", ApiData, "", "application/json", b, NoCond) :
        b \in {SampleBody, Garbage, JsonBody(HelloBackend), JsonBody(ArrT(<<Huge>>))}}

\* The first slot carries any request; the others carry the background traffic:
\* the probed requests, GET / (plain and conditional), HEAD /, a POST that is not
\* JSON, and a path with no route.
CoreRequests ==
    ProbeRequests
    \cup {Req("GET", RootPath, "", "none", NoBody, c) :
            c \in {NoCond, [NoCond EXCEPT !.inm = "match"]}}
    \cup {Req("HEAD", RootPath, "", "none", NoBody, NoCond),
          Req("POST", ApiData, "", "text/plain", Garbage, NoCond),
          Req("GET", Path("/nonexistent", "exact"), "", "none", NoBody, NoCond)}

RequestsOn(i) == IF i = 1 THEN Requests ELSE CoreRequests

NoProbe == [req |-> NoRequest, resp |-> NoResponse]

Init ==
    /\ expressMajor \in ExpressMajors
    /\ pc = "start"
    /\ listenPort = 0
    /\ logLines = 0
    /\ slots = [i \in Slots |-> Idle]
    /\ probe = NoProbe

\* index.js line 17, app.listen(port, ...): the bind succeeds, or fails (the port
\* is in use).
Listen ==
    /\ pc = "start"
    /\ \/ pc' = "bound" /\ listenPort' = port
       \/ pc' = "bindError" /\ listenPort' = 0
    /\ UNCHANGED <<expressMajor, logLines, slots, probe>>

\* index.js lines 17-19: the callback runs on the server's "listening" event, on
\* the tick after the bind, before any connection is accepted.
Listening ==
    /\ pc = "bound"
    /\ pc' = "listening"
    /\ logLines' = logLines + 1
    /\ UNCHANGED <<expressMajor, listenPort, slots, probe>>

\* The server's "error" event after a failed bind.  Express 4 passes the callback
\* to the server as a "listening" listener only: nothing listens for "error" and
\* the process dies of it.  Express 5 also registers the callback (wrapped to run
\* once) for "error": it runs, ignores its argument, writes the line, and the
\* process, with nothing left to wait for, exits.
ListenError ==
    /\ pc = "bindError"
    /\ IF expressMajor = 4
       THEN pc' = "crashed" /\ logLines' = logLines
       ELSE pc' = "exited" /\ logLines' = logLines + 1
    /\ UNCHANGED <<expressMajor, listenPort, slots, probe>>

\* A request arrives on a free connection slot and goes down the stack.
Arrive(i) ==
    /\ pc = "listening"
    /\ slots[i].phase = "idle"
    /\ \E r \in RequestsOn(i) : slots' = [slots EXCEPT ![i] = Accept(expressMajor, r)]
    /\ UNCHANGED <<expressMajor, pc, listenPort, logLines, probe>>

\* The last chunk of a request's body arrives.
BodyEnd(i) ==
    /\ pc = "listening"
    /\ slots[i].phase = "reading"
    /\ slots' = [slots EXCEPT ![i] = BodyRead(expressMajor, slots[i])]
    /\ UNCHANGED <<expressMajor, pc, listenPort, logLines, probe>>

\* The response is written out and the slot is free again.  The first answer to a
\* probed request is recorded.
Deliver(i) ==
    /\ slots[i].phase = "responded"
    /\ slots' = [slots EXCEPT ![i] = Idle]
    /\ probe' = IF probe = NoProbe /\ slots[i].req \in ProbeRequests
                THEN [req |-> slots[i].req, resp |-> slots[i].resp]
                ELSE probe
    /\ UNCHANGED <<expressMajor, pc, listenPort, logLines>>

Next ==
    \/ Listen
    \/ Listening
    \/ ListenError
    \/ \E i \in Slots : Arrive(i)
    \/ \E i \in Slots : BodyEnd(i)
    \/ \E i \in Slots : Deliver(i)

Spec == Init /\ [][Next]_vars

(***************************************************************************)
(* Vocabulary of the properties.                                           *)
(***************************************************************************)
Answered(i) == slots[i].phase = "responded"

\* Two JSON texts are the same text: same values in the same order.
RECURSIVE ExactText(_, _)
ExactText(a, b) ==
    /\ a.t = b.t
    /\ CASE a.t = "arr" ->
              /\ Len(a.v) = Len(b.v)
              /\ \A i \in 1..Len(a.v) : ExactText(a.v[i], b.v[i])
         [] a.t = "obj" ->
              /\ Len(a.v) = Len(b.v)
              /\ \A i \in 1..Len(a.v) :
                    a.v[i][1] = b.v[i][1] /\ ExactText(a.v[i][2], b.v[i][2])
         [] OTHER -> a.v = b.v

\* Two responses are identical: same status, same body.
SameResponse(a, b) ==
    /\ a.status = b.status
    /\ a.body.kind = b.body.kind
    /\ ExactText(a.body.v, b.body.v)

HasMember(obj, key) == \E i \in 1..Len(obj.v) : obj.v[i][1] = key
Member(obj, key) == obj.v[CHOOSE i \in 1..Len(obj.v) : obj.v[i][1] = key][2]

IsJsonObject(resp) == resp.body.kind = "json" /\ resp.body.v.t = "obj"

\* The response is the envelope of index.js line 14: a JSON object whose message
\* member is "Data received!".
IsEnvelope(resp) ==
    /\ IsJsonObject(resp)
    /\ HasMember(resp.body.v, "message")
    /\ ExactText(Member(resp.body.v, "message"), StrT(DataReceived))

\* The response's data member is structurally equal to the JSON text x.
EchoesData(resp, x) ==
    /\ IsJsonObject(resp)
    /\ HasMember(resp.body.v, "data")
    /\ DeepEqual(Member(resp.body.v, "data"), x)

IsGreeting(resp) ==
    /\ resp.status = 200
    /\ resp.body.kind = "text"
    /\ ExactText(resp.body.v, StrT(Greeting))

IsGetRoot(r) == r.method = "GET" /\ r.path.name = "/"
IsPostData(r) == r.method = "POST" /\ r.path.name = "/api/data"

\* A JSON text every member name of which occurs once in its object.
RECURSIVE NoDuplicateKeys(_)
NoDuplicateKeys(x) ==
    CASE x.t = "arr" -> \A i \in 1..Len(x.v) : NoDuplicateKeys(x.v[i])
      [] x.t = "obj" ->
            /\ \A i, j \in 1..Len(x.v) : x.v[i][1] = x.v[j][1] => i = j
            /\ \A i \in 1..Len(x.v) : NoDuplicateKeys(x.v[i][2])
      [] OTHER -> TRUE

\* A JSON text every number of which is a finite double.
RECURSIVE NumbersFinite(_)
NumbersFinite(x) ==
    CASE x.t = "arr" -> \A i \in 1..Len(x.v) : NumbersFinite(x.v[i])
      [] x.t = "obj" -> \A i \in 1..Len(x.v) : NumbersFinite(x.v[i][2])
      [] x.t = "num" -> x.v # "1e400"
      [] OTHER -> TRUE

\* The request announces JSON and its body is not a JSON object or array: bytes
\* that are not JSON, or a JSON scalar.
RejectedByParser(r) ==
    /\ r.ctype = "application/json"
    /\ \/ r.body.kind = "garbage"
       \/ r.body.kind = "json" /\ r.body.text.t \notin {"arr", "obj"}

(***************************************************************************)
(* C1.  As claimed: for every valid JSON value v (object, array or scalar) *)
(* sent as the JSON-encoded body of POST /api/data, the request is         *)
(* accepted and the data member of the response is structurally equal to   *)
(* v.  Violated: the parser's default strict mode answers a scalar with    *)
(* 400; 1e400 comes back as null; a repeated member name comes back once.  *)
(***************************************************************************)
IsJsonPost(r) ==
    IsPostData(r) /\ r.ctype = "application/json" /\ r.body.kind = "json"

C2_GetRootAlwaysGreets ==
    \A i \in Slots :
        Answered(i) /\ IsGetRoot(slots[i].req) => IsGreeting(slots[i].resp)

\* C2, amended: every GET / request that carries no If-None-Match header and no
\* body the JSON parser rejects receives 200 and the greeting, whatever its other
\* headers and its query string, and whatever came before.
C2_GetRootGreetsUnlessConditional ==
    \A i \in Slots :
        LET r == slots[i].req
        IN  Answered(i) /\ IsGetRoot(r) /\ r.cond.inm = "absent" /\ ~RejectedByParser(r)
            => IsGreeting(slots[i].resp)

\* C2, witness: after an earlier request was answered, a GET / that carries a
\* query string and If-Modified-Since is greeted, next to a plain GET /.
C2_Witness ==
    /\ probe # NoProbe
    /\ Answered(1) /\ IsGetRoot(slots[1].req) /\ IsGreeting(slots[1].resp)
    /\ slots[1].req.cond.ims /\ slots[1].req.query # ""
    /\ Answered(2) /\ IsGetRoot(slots[2].req) /\ IsGreeting(slots[2].resp)

(***************************************************************************)
(* C3.  As claimed: every POST /api/data request receives 200 and a        *)
(* message member equal to "Data received!", whatever its body.  Violated: *)
(* a body the JSON parser rejects is answered 400 with an error page.      *)
(***************************************************************************)
C3_PostAlwaysReceived ==
    \A i \in Slots :
        Answered(i) /\ IsPostData(slots[i].req) =>
            slots[i].resp.status = 200 /\ IsEnvelope(slots[i].resp)

\* C3, amended: every POST /api/data request that the JSON body parser does not
\* reject receives 200 and a message member equal to "Data received!".
C3_PostReceivedUnlessRejected ==
    \A i \in Slots :
        Answered(i) /\ IsPostData(slots[i].req) /\ ~RejectedByParser(slots[i].req) =>
            slots[i].resp.status = 200 /\ IsEnvelope(slots[i].resp)

\* C3, witness: a POST with an empty body and a POST that is not JSON have both
\* been answered with the envelope.
C3_Witness ==
    /\ Answered(1) /\ IsPostData(slots[1].req) /\ slots[1].req.body = EmptyBody
    /\ IsEnvelope(slots[1].resp)
    /\ Answered(2) /\ IsPostData(slots[2].req) /\ slots[2].req.ctype = "text/plain"
    /\ IsEnvelope(slots[2].resp)

C5_OnlyTwoPairsServed ==
    \A i \in Slots :
        Answered(i) /\ ~IsGetRoot(slots[i].req) /\ ~IsPostData(slots[i].req)
            => slots[i].resp.status # 200 /\ slots[i].handler = "none"

\* The request is one a route handles: GET or HEAD on /, POST on /api/data, the
\* path compared without regard to case or to a trailing slash.
Routed(r) ==
    \/ r.path.name = "/" /\ r.method \in {"GET", "HEAD"}
    \/ r.path.name = "/api/data" /\ r.method = "POST"

\* The request is an OPTIONS request to a path that has a route.
AutomaticOptions(r) == r.method = "OPTIONS" /\ r.path.name \in {"/", "/api/data"}

\* C5, amended: every request that no route handles (its path, compared without
\* regard to case or to a trailing slash, is neither / nor /api/data, or its method
\* is not the route's: GET or HEAD for /, POST for /api/data) and that is not an
\* OPTIONS request to one of the two paths receives a status other than 200, and
\* neither handler runs for it.
C5_UnroutedNotServed ==
    \A i \in Slots :
        LET r == slots[i].req
        IN  Answered(i) /\ ~Routed(r) /\ ~AutomaticOptions(r)
            => slots[i].resp.status # 200 /\ slots[i].handler = "none"

\* C5, witness: POST / and GET /nonexistent have both been answered 404.
C5_Witness ==
    /\ Answered(1) /\ slots[1].req.method = "POST" /\ slots[1].req.path = RootPath
    /\ slots[1].resp.status = 404 /\ slots[1].handler = "none"
    /\ Answered(2) /\ slots[2].req.path.name = "/nonexistent"
    /\ slots[2].resp.status = 404 /\ slots[2].handler = "none"

(***************************************************************************)
(* C6.  As claimed: a POST /api/data request whose body is not valid JSON  *)
(* is rejected by the JSON body-parsing step: the POST handler does not    *)
(* run, no envelope is sent, the response is not 200, and the server keeps *)
(* serving.  Violated: a body under another content type is not parsed at  *)
(* all, and an empty body is taken for {}; in both cases the handler runs  *)
(* and answers 200 with the envelope.                                      *)
(***************************************************************************)
NotValidJson(r) == r.body.kind \in {"garbage", "empty"}

Rejected(i) ==
    /\ slots[i].handler = "none"
    /\ slots[i].sends = 0
    /\ slots[i].resp.status = 400
    /\ ~IsEnvelope(slots[i].resp)
    /\ pc = "listening"

C7_LogOnlyAfterListenSucceeds ==
    /\ logLines <= 1
    /\ logLines = 1 => listenPort = port
    /\ pc = "listening" => logLines = 1 /\ listenPort = port
    /\ \A i \in Slots : slots[i].phase # "idle" => listenPort = port /\ logLines = 1

(***************************************************************************)
(* C8.  For every request a handler ran for, the JSON body-parsing         *)
(* middleware was done with the request before the handler ran; while a    *)
(* request's body is still being read, no handler has run for it.          *)
(***************************************************************************)
C8_ParsedBeforeHandled ==
    \A i \in Slots :
        /\ slots[i].handler # "none" => slots[i].handlerSawParsed
        /\ slots[i].phase = "reading" => slots[i].handler = "none" /\ ~slots[i].parsed

\* C8, witness: the POST handler ran for a request whose body had to be read and
\* parsed first, while another request's body is still being read.
C8_Witness ==
    /\ Answered(1) /\ slots[1].handler = "post" /\ slots[1].handlerSawParsed
    /\ slots[1].req.body.kind = "json" /\ slots[1].body.t = "arr"
    /\ slots[2].phase = "reading"

(***************************************************************************)
(* C9.  Whatever else is in flight, each response is the one its own       *)
(* request gets when served alone; the data echoed to one caller is its    *)
(* own body.                                                               *)
(***************************************************************************)
C9_ResponseDependsOnOwnRequest ==
    \A i \in Slots :
        Answered(i) => SameResponse(slots[i].resp, Serve(expressMajor, slots[i].req))

\* C9, witness: two POSTs with different bodies are in flight together, and each
\* got its own body back and not the other's.
C9_Witness ==
    /\ Answered(1) /\ IsJsonPost(slots[1].req) /\ slots[1].req.body.text.t = "arr"
    /\ EchoesData(slots[1].resp, ArrT(<<HelloBackend>>))
    /\ Answered(2) /\ slots[2].req.body = SampleBody
    /\ EchoesData(slots[2].resp, SampleBody.text)
    /\ ~EchoesData(slots[2].resp, ArrT(<<HelloBackend>>))

(***************************************************************************)
(* C10.  Every request dispatched to a handler is answered by exactly one  *)
(* res.send call; a request no handler ran for has none.                   *)
(***************************************************************************)
C10_HandlerSendsOnce ==
    \A i \in Slots :
        /\ slots[i].handler # "none" =>
              slots[i].sends = 1 /\ Answered(i) /\ slots[i].resp # NoResponse
        /\ slots[i].handler = "none" => slots[i].sends = 0

\* C10, witness: the GET handler and the POST handler have each answered a request.
C10_Witness ==
    /\ Answered(1) /\ slots[1].handler = "get" /\ slots[1].sends = 1
    /\ Answered(2) /\ slots[2].handler = "post" /\ slots[2].sends = 1

=============================================================================
